---- MODULE Spec2Model ----
(***************************************************************************)
(* Character browser: the TTL cache (SearchCache), the debounce helper,    *)
(* the character service and the useCharacters hook, modelled as state     *)
(* machines, with Layout and CharactersPage on top.  The specifications   *)
(* of the module:                                                          *)
(*   Spec          the useCharacters hook with the cache and the service:  *)
(*                 loads, filters, failures, expiry and re-mounts          *)
(*   SpecLive      Spec with every pending getCharacters call settling     *)
(*   SpecSearch    the hook with its debounced search and the timers       *)
(*   SpecPage      CharactersPage in Layout: handleApplyFilters, the       *)
(*                 intersection observer and the search box over the hook  *)
(*   SpecView      the derived lists of useCharactersPage for any list     *)
(*   SpecService   the hook over GraphQLClient.request and the outcomes of  *)
(*                 fetch                                                   *)
(*   SpecCache     the SearchCache class alone                             *)
(*   SpecDebounce  one function produced by debounce(fn, delay)            *)
(***************************************************************************)
EXTENDS Integers, Sequences, FiniteSets, TLC

VARIABLES
    \* --- React state of the mounted useCharacters instance
    characters, currentPage, totalPages, loading, isLoadingMore, error,
    activeFilter, isInitialLoadRef,
    \* --- debounce closures: the pending timeout of the current debounced
    \*     function, and pending timeouts of debounced functions no longer
    \*     referenced by debouncedSearchRef
    timeoutId, strayTimers,
    \* --- module singletons and environment
    cache, inflight, now, mount,
    \* --- observation: the last handler that ran and what it did
    ev,
    \* --- observation: a filter change that overtook a loadNextPage fetch
    race,
    \* --- the delay the debounced function of SpecDebounce was created with
    delay,
    \* --- observation: the sets of SpecCache, the calls of the debounced
    \*     function and the invocations of the function it wraps
    shadow, calls, invoked,
    \* --- state of useCharactersPage (lost when CharactersPage unmounts) and
    \*     the Starred Set of Layout
    localFilter, currentServerFilters, starredIds,
    \* --- observation: the last call of handleApplyFilters
    applied

vars == <<characters, currentPage, totalPages, loading, isLoadingMore, error,
          activeFilter, isInitialLoadRef, timeoutId, strayTimers,
          cache, inflight, now, mount, ev, race, delay, shadow, calls, invoked,
          localFilter, currentServerFilters, starredIds, applied>>

pageVars == <<localFilter, currentServerFilters, starredIds, applied>>

hookVars == <<characters, currentPage, totalPages, loading, isLoadingMore,
              error, activeFilter, isInitialLoadRef>>

-----------------------------------------------------------------------------
(* Bounds of the model *)

\* longest Accumulated List explored
MaxLen == 4
\* most fetches in flight at once
MaxInflight == 2
\* most mounts of the hook (1 = never re-mounted)
MaxMounts == 2
\* granularity of the clock, in ms
Step == 100
\* searchCharacters is called at most Slack - searchDelay ms after start
Slack == 400
\* most pending timeouts of replaced debounced functions
MaxStray == 1
\* most calls of the debounced function of SpecDebounce
MaxCalls == 3
\* most calls of searchCharacters
MaxSearches == 2
\* the clock of SpecDebounce stops after MaxTime steps
MaxTime == 9
\* the clock of SpecCache stops after MaxIdles expiry periods
MaxIdles == 2

-----------------------------------------------------------------------------
(* JavaScript values: a tag and a payload.  A string is a sequence of      *)
(* chunks; the chunk " " is white space.                                   *)

Str(s) == [t |-> "string", v |-> s]
Undefined == [t |-> "undefined", v |-> <<>>]
Null == [t |-> "null", v |-> <<>>]
Arr(s) == [t |-> "array", v |-> s]
\* an object: its own properties in insertion order
Obj(props) == [t |-> "object", v |-> props]
Prop(k, val) == [k |-> k, v |-> val]

\* JS truthiness of the values above
Truthy(x) == /\ x.t \notin {"undefined", "null"}
             /\ ~(x.t = "string" /\ x.v = <<>>)

IsWhite(c) == c = " "

RECURSIVE TrimStart(_)
TrimStart(s) == IF s # <<>> /\ IsWhite(Head(s)) THEN TrimStart(Tail(s)) ELSE s

RECURSIVE TrimEnd(_)
TrimEnd(s) == IF s # <<>> /\ IsWhite(s[Len(s)])
              THEN TrimEnd(SubSeq(s, 1, Len(s) - 1)) ELSE s

\* String.prototype.trim
trim(s) == TrimEnd(TrimStart(s))

\* index of property k in the property list, 0 when absent
RECURSIVE IndexOfKey(_, _, _)
IndexOfKey(props, k, i) ==
    IF i > Len(props) THEN 0
    ELSE IF props[i].k = k THEN i ELSE IndexOfKey(props, k, i + 1)

\* obj[k] = val on a property list: an existing key keeps its position
SetProp(props, k, val) ==
    LET i == IndexOfKey(props, k, 1) IN
    IF i = 0 THEN Append(props, Prop(k, val))
    ELSE [props EXCEPT ![i] = Prop(k, val)]

\* { ...a, ...b } on property lists
RECURSIVE SpreadInto(_, _)
SpreadInto(a, b) ==
    IF b = <<>> THEN a
    ELSE SpreadInto(SetProp(a, Head(b).k, Head(b).v), Tail(b))

\* the own properties a spread copies: none for null / undefined
PropsOf(x) == IF x.t = "object" THEN x.v ELSE <<>>

HasKey(props, k) == IndexOfKey(props, k, 1) # 0
GetProp(props, k) ==
    IF HasKey(props, k) THEN props[IndexOfKey(props, k, 1)].v ELSE Undefined

\* JSON.stringify of an object with string values: the properties in
\* insertion order, undefined-valued ones left out
RECURSIVE PropTexts(_)
PropTexts(props) ==
    IF props = <<>> THEN <<>>
    ELSE IF Head(props).v.t = "undefined" THEN PropTexts(Tail(props))
    ELSE <<<<Head(props).k, Head(props).v.v>>>> \o PropTexts(Tail(props))

JSONstringify(x) == PropTexts(PropsOf(x))

KeepProp(p) == p.v # Undefined /\ p.v # Null /\ p.v # Str(<<>>)

\* cleanObject that removes nothing
cleanObject_KeepsAll(props) == props

\* helpers: cleanObject
cleanObject(props) == SelectSeq(props, KeepProp)

-----------------------------------------------------------------------------
(* SearchCache: a Map from key to { data, timestamp } *)

maxAgeMinutes == 30
\* constructor: maxAgeMinutes * 60 * 1000
maxAge == maxAgeMinutes * 60 * 1000

EmptyCache == [k \in {} |-> Null]

\* Map.set / Map.delete on the function that models the Map
MapSet(c, key, entry) ==
    [k \in DOMAIN c \cup {key} |-> IF k = key THEN entry ELSE c[k]]
MapDelete(c, key) == [k \in DOMAIN c \ {key} |-> c[k]]

\* SearchCache.get expiring an entry already at age maxAge
SearchCache_get_Early(c, key, t) ==
    IF key \notin DOMAIN c
    THEN [cache |-> c, result |-> Null]
    ELSE IF t - c[key].timestamp >= maxAge
         THEN [cache |-> MapDelete(c, key), result |-> Null]
         ELSE [cache |-> c, result |-> c[key].data]

\* SearchCache.get that leaves an expired entry in the Map
SearchCache_get_NoDelete(c, key, t) ==
    IF key \notin DOMAIN c \/ t - c[key].timestamp > maxAge
    THEN [cache |-> c, result |-> Null]
    ELSE [cache |-> c, result |-> c[key].data]

\* SearchCache.get at time t: the Map afterwards and the value returned
SearchCache_get(c, key, t) ==
    IF key \notin DOMAIN c
    THEN [cache |-> c, result |-> Null]
    ELSE LET age == t - c[key].timestamp IN
         IF age > maxAge
         THEN [cache |-> MapDelete(c, key), result |-> Null]
         ELSE [cache |-> c, result |-> c[key].data]

\* SearchCache.set that keeps the timestamp of an entry it replaces
SearchCache_set_KeepAge(c, key, data, t) ==
    MapSet(c, key, [data |-> data,
                    timestamp |-> IF key \in DOMAIN c THEN c[key].timestamp ELSE t])

\* SearchCache.set at time t
SearchCache_set(c, key, data, t) ==
    MapSet(c, key, [data |-> data, timestamp |-> t])

\* SearchCache.clear
SearchCache_clear(c) == EmptyCache

-----------------------------------------------------------------------------
(* The character service: what the API returns for (page, filter).  The    *)
(* answer depends on the constraints of the filter only, not on the order  *)
(* of its properties.                                                      *)

Entity(id, rev) == [id |-> id, rev |-> rev]

HasName(filter) == HasKey(PropsOf(filter), "name")
HasSpecies(filter) == HasKey(PropsOf(filter), "species")

\* response.info.pages: the unfiltered list has two pages, a filtered one
\* a single page
ServerPages(filter) ==
    IF ~HasName(filter) /\ ~HasSpecies(filter) THEN 2 ELSE 1

\* the ids on a page; adjacent pages of the unfiltered list share id 2
ServerIds(filter, page) ==
    CASE ~HasName(filter) /\ ~HasSpecies(filter) ->
             IF page = 1 THEN <<1, 2>> ELSE <<2, 3>>
      [] HasName(filter) /\ ~HasSpecies(filter) -> <<3>>
      [] ~HasName(filter) /\ HasSpecies(filter) -> <<2>>
      [] OTHER -> <<1>>

RECURSIVE Copies(_, _)
Copies(ids, rev) ==
    IF ids = <<>> THEN <<>>
    ELSE <<Entity(Head(ids), rev)>> \o Copies(Tail(ids), rev)

ServerResults(filter, page) == Copies(ServerIds(filter, page), page)

\* characterService.getCharacters resolves for the pages the API has
getCharacters(page, filter) ==
    [results |-> ServerResults(filter, page),
     info |-> [pages |-> ServerPages(filter)]]

\* what a rejected getCharacters call may throw: an Error with a message,
\* or a value that is not an Error
TransportError == [isError |-> TRUE, message |-> Str(<<"GraphQL request failed">>)]
NonError == [isError |-> FALSE, message |-> Str(<<>>)]
Failures == {TransportError, NonError}

-----------------------------------------------------------------------------
(* useCharacters *)

\* hasNextPage
hasNextPage == currentPage < totalPages

\* getCacheKey: the template string, as its parts
getCacheKey(page, filter) ==
    IF ~Truthy(filter) \/ Len(PropsOf(filter)) = 0
    THEN <<"characters:page:", page>>
    ELSE <<"characters:", JSONstringify(filter), ":page:", page>>

Ids(list) == {list[i].id : i \in 1..Len(list)}

\* loadData, cache hit: setCharacters(cached) / [...prev, ...cached]
mergeCached(prev, cached, page) ==
    IF page = 1 THEN cached ELSE prev \o cached

\* loadData, fetched page: replace on page 1, else append the entries whose
\* id is not in prev
mergeFetched(prev, newCharacters, page) ==
    IF page = 1 THEN newCharacters
    ELSE prev \o SelectSeq(newCharacters, LAMBDA ch : ch.id \notin Ids(prev))

\* catch: err instanceof Error ? err.message : "Failed to load characters"
errorMessage(err) ==
    IF err.isError THEN err.message ELSE Str(<<"Failed to load characters">>)

\* what the last handler did
Ev(op, page, filter, res, arg) ==
    [op |-> op, page |-> page, filter |-> filter, res |-> res, arg |-> arg]

\* the values useState / useRef are created with
InitialHook ==
    [characters |-> <<>>, currentPage |-> 1, totalPages |-> 0,
     loading |-> TRUE, isLoadingMore |-> FALSE, error |-> Null,
     activeFilter |-> Null, isInitialLoadRef |-> TRUE]

\* the state of the mounted instance
Hook ==
    [characters |-> characters, currentPage |-> currentPage,
     totalPages |-> totalPages, loading |-> loading,
     isLoadingMore |-> isLoadingMore, error |-> error,
     activeFilter |-> activeFilter, isInitialLoadRef |-> isInitialLoadRef]

\* loadData with the cache lookup left out: every load fetches
loadData_NoLookup(h, c, t, page, filter) ==
    [h |-> [h EXCEPT
              !.loading = IF h.isInitialLoadRef THEN TRUE ELSE @,
              !.isLoadingMore = IF h.isInitialLoadRef THEN @ ELSE TRUE],
     cache |-> c,
     fetch |-> <<[page |-> page, filter |-> filter,
                  cacheKey |-> getCacheKey(page, filter),
                  initial |-> h.isInitialLoadRef]>>,
     res |-> "miss"]

\* loadData(page, filter) up to its await, on hook state h, Map c, at time t:
\* loadData raising loading on every cache miss
loadData_AlwaysLoading(h, c, t, page, filter) ==
    LET cacheKey == getCacheKey(page, filter)
        got == SearchCache_get(c, cacheKey, t)
        cached == got.result
    IN  IF Truthy(cached)
        THEN [h |-> [h EXCEPT
                       !.characters = mergeCached(@, cached.v, page),
                       !.loading = IF h.isInitialLoadRef THEN FALSE ELSE @,
                       !.isInitialLoadRef = IF @ THEN FALSE ELSE @],
              cache |-> got.cache, fetch |-> <<>>, res |-> "hit"]
        ELSE [h |-> [h EXCEPT !.loading = TRUE],
              cache |-> got.cache,
              fetch |-> <<[page |-> page, filter |-> filter,
                           cacheKey |-> cacheKey,
                           initial |-> h.isInitialLoadRef]>>,
              res |-> "miss"]

\* the hook state and the Map afterwards, the getCharacters calls started
\* (none or one) and whether the cache served the load
loadData(h, c, t, page, filter) ==
    LET cacheKey == getCacheKey(page, filter)
        got == SearchCache_get(c, cacheKey, t)
        cached == got.result
    IN  IF Truthy(cached)
        THEN [h |-> [h EXCEPT
                       !.characters = mergeCached(@, cached.v, page),
                       !.loading = IF h.isInitialLoadRef THEN FALSE ELSE @,
                       !.isInitialLoadRef = IF @ THEN FALSE ELSE @],
              cache |-> got.cache, fetch |-> <<>>, res |-> "hit"]
        ELSE [h |-> [h EXCEPT
                       !.loading = IF h.isInitialLoadRef THEN TRUE ELSE @,
                       !.isLoadingMore = IF h.isInitialLoadRef THEN @ ELSE TRUE],
              cache |-> got.cache,
              fetch |-> <<[page |-> page, filter |-> filter,
                           cacheKey |-> cacheKey,
                           initial |-> h.isInitialLoadRef]>>,
              res |-> "miss"]

\* loadDataResolved storing the merged list in the cache
loadDataResolved_CachesMerged(h, c, t, req, response) ==
    [h |-> [h EXCEPT
              !.characters = mergeFetched(@, response.results, req.page),
              !.currentPage = req.page,
              !.totalPages = response.info.pages,
              !.error = Null,
              !.loading = FALSE,
              !.isLoadingMore = FALSE,
              !.isInitialLoadRef = FALSE],
     cache |-> SearchCache_set(c, req.cacheKey,
                               Arr(mergeFetched(h.characters, response.results,
                                                req.page)), t)]

\* loadData after its await, getCharacters having resolved with response:
\* the try block and the finally block
loadDataResolved(h, c, t, req, response) ==
    [h |-> [h EXCEPT
              !.characters = mergeFetched(@, response.results, req.page),
              !.currentPage = req.page,
              !.totalPages = response.info.pages,
              !.error = Null,
              !.loading = FALSE,
              !.isLoadingMore = FALSE,
              !.isInitialLoadRef = FALSE],
     cache |-> SearchCache_set(c, req.cacheKey, Arr(response.results), t)]

\* loadDataRejected with the list cleared in the catch block
loadDataRejected_Clears(h, c, t, req, err) ==
    [h |-> [h EXCEPT
              !.characters = <<>>,
              !.error = errorMessage(err),
              !.loading = FALSE,
              !.isLoadingMore = FALSE,
              !.isInitialLoadRef = FALSE],
     cache |-> c]

\* loadDataRejected without the finally block
loadDataRejected_NoFinally(h, c, t, req, err) ==
    [h |-> [h EXCEPT !.error = errorMessage(err)], cache |-> c]

\* loadData after its await, getCharacters having thrown err: the catch
\* block and the finally block
loadDataRejected(h, c, t, req, err) ==
    [h |-> [h EXCEPT
              !.error = errorMessage(err),
              !.loading = FALSE,
              !.isLoadingMore = FALSE,
              !.isInitialLoadRef = FALSE],
     cache |-> c]

NoLoad(h, c) == [h |-> h, cache |-> c, fetch |-> <<>>, res |-> "none"]

\* loadNextPage, on the state it was rendered with
loadNextPage(h, c, t) ==
    IF ~(h.currentPage < h.totalPages) \/ h.isLoadingMore
    THEN NoLoad(h, c)
    ELSE loadData(h, c, t, h.currentPage + 1, h.activeFilter)

\* the filter cleanAndApplyFilters stores and loads
finalFilter(newFilter) ==
    LET cleanFilter == cleanObject(newFilter)
    IN  IF Len(cleanFilter) > 0 THEN Obj(cleanFilter) ELSE Null

\* cleanAndApplyFilters(newFilter)
cleanAndApplyFilters(h, c, t, newFilter) ==
    loadData([h EXCEPT !.activeFilter = finalFilter(newFilter),
                       !.isInitialLoadRef = FALSE],
             c, t, 1, finalFilter(newFilter))

\* the argument performSearch builds: { ...activeFilter, name: query.trim()
\* || undefined } with the activeFilter of the render that created it
searchFilter(captured, query) ==
    SetProp(PropsOf(captured), "name",
            IF Truthy(Str(trim(query.v))) THEN Str(trim(query.v)) ELSE Undefined)

performSearch(h, c, t, captured, query) ==
    cleanAndApplyFilters(h, c, t, searchFilter(captured, query))

\* applyFilters(filters): { ...activeFilter, ...filters }
applyFilters(h, c, t, filters) ==
    cleanAndApplyFilters(h, c, t, SpreadInto(PropsOf(h.activeFilter), filters))

-----------------------------------------------------------------------------
(* debounce(func, delay) *)

\* the delay useCharacters passes
searchDelay == 300

\* debounced without the clearTimeout: the pending timeout stays set
debounced_NoClear(pending, func, args, d, t) ==
    pending \o <<[args |-> args, func |-> func, due |-> t + d]>>

\* debounced(...args): clearTimeout of the pending timeout, then setTimeout.
\* A timeout is the arguments, the func of the closure and its due time.
debounced(pending, func, args, d, t) ==
    <<[args |-> args, func |-> func, due |-> t + d]>>

\* the performSearch a debounced function was created with: the instance it
\* belongs to and the activeFilter of the render that created it
PerformSearchOf(m, captured) == [mount |-> m, captured |-> captured]

Due(timer, t) == timer.due <= t

-----------------------------------------------------------------------------
(* The hook in its environment *)

\* what the user types into the search box
Queries == {Str(<<>>), Str(<<" ", "rick", " ">>)}

\* the partial filters handed to applyFilters
SpeciesPartials == {<<>>,
                    <<Prop("species", Str(<<"human">>))>>,
                    <<Prop("species", Str(<<>>))>>}
Partials == {<<>>,
             <<Prop("name", Str(<<"rick">>))>>,
             <<Prop("name", Undefined)>>}

Commit(r) ==
    /\ characters' = r.h.characters
    /\ currentPage' = r.h.currentPage
    /\ totalPages' = r.h.totalPages
    /\ loading' = r.h.loading
    /\ isLoadingMore' = r.h.isLoadingMore
    /\ error' = r.h.error
    /\ activeFilter' = r.h.activeFilter
    /\ isInitialLoadRef' = r.h.isInitialLoadRef
    /\ cache' = r.cache

\* the getCharacters calls a handler of mount m started, as they wait in
\* flight; role is observation only
RECURSIVE Tagged(_, _, _)
Tagged(fetch, m, role) ==
    IF fetch = <<>> THEN <<>>
    ELSE <<[page |-> Head(fetch).page, filter |-> Head(fetch).filter,
            cacheKey |-> Head(fetch).cacheKey, initial |-> Head(fetch).initial,
            mount |-> m, role |-> role]>> \o Tagged(Tail(fetch), m, role)

NoRace == [filter |-> Null, changed |-> FALSE, old |-> "none", new |-> "none"]

\* a loadNextPage fetch of the mounted instance is in flight
NextPageInFlight ==
    \E i \in 1..Len(inflight) : inflight[i].mount = mount /\ inflight[i].page > 1

RECURSIVE Retagged(_, _)
Retagged(reqs, racing) ==
    IF reqs = <<>> THEN <<>>
    ELSE <<[Head(reqs) EXCEPT !.role =
              IF racing /\ Head(reqs).mount = mount /\ Head(reqs).page > 1
              THEN "old" ELSE ""]>> \o Retagged(Tail(reqs), racing)

\* observation of a filter change of the mounted instance whose load is r:
\* it races with the loadNextPage fetch in flight, if there is one
FilterChange(r) ==
    /\ inflight' = Retagged(inflight, NextPageInFlight) \o
                   Tagged(r.fetch, mount, IF NextPageInFlight THEN "new" ELSE "")
    /\ race' = IF NextPageInFlight
               THEN [filter |-> r.h.activeFilter,
                     changed |-> \E i \in 1..Len(inflight) :
                                    /\ inflight[i].mount = mount
                                    /\ inflight[i].page > 1
                                    /\ inflight[i].filter # r.h.activeFilter,
                     old |-> "pending",
                     new |-> IF r.res = "hit" THEN "hit" ELSE "pending"]
               ELSE NoRace

\* observation of the outcome of a request
Outcome(req, what) ==
    race' = IF req.role = "old" THEN [race EXCEPT !.old = what]
            ELSE IF req.role = "new" THEN [race EXCEPT !.new = what]
            ELSE race

\* a handler of an instance that is no longer mounted: its setters change
\* nothing, its cache accesses and fetches are real
Detached(r) == [r EXCEPT !.h = Hook]

\* the hook state a handler of mount m runs on
HookOf(m) == IF m = mount THEN Hook ELSE [InitialHook EXCEPT !.isInitialLoadRef = FALSE]

Settle(r, m) == IF m = mount THEN r ELSE Detached(r)

Remove(seq, i) == SubSeq(seq, 1, i - 1) \o SubSeq(seq, i + 1, Len(seq))

\* the render after setActiveFilter: performSearch changes with activeFilter
\* (a new object, or null replaced), and the effect stores a new debounced
\* function, whose closure has no timeout; the pending timeout of the old
\* one stays scheduled
Replaced(old, new) == ~(old = Null /\ new = Null)

Timers == timeoutId \o strayTimers

\* Layout without the early return of the error screen
View_NoErrorScreen == IF loading THEN "loading" ELSE "list"

\* the early returns of Layout: the spinner while loading, else the error
\* screen when error is set, else the page with the list
View ==
    IF loading THEN "loading"
    ELSE IF Truthy(error) THEN "error"
    ELSE "list"

\* no call of handleApplyFilters yet
NoApply ==
    [called |-> FALSE, species |-> "all", forwarded |-> FALSE,
     fetched |-> FALSE]

\* useState("all"), useState({}) of useCharactersPage and useState(new Set())
\* of Layout
InitialPage ==
    /\ localFilter = "all"
    /\ currentServerFilters = <<>>
    /\ starredIds = {}
    /\ applied = NoApply

\* Layout renders CharactersPage in the list view only: a step that leaves
\* the list view unmounts the page, and the next one mounted starts from the
\* initial state of useCharactersPage; lf and csf are the values the step
\* has set
Render(lf, csf) ==
    /\ localFilter' = IF View' = "list" THEN lf ELSE "all"
    /\ currentServerFilters' = IF View' = "list" THEN csf ELSE <<>>

\* the render after a step that calls no handler of the page
Rendered ==
    /\ Render(localFilter, currentServerFilters)
    /\ UNCHANGED <<starredIds, applied>>

otherVars == <<delay, shadow, calls, invoked>>

Init ==
    LET r == loadData(InitialHook, EmptyCache, 0, 1, Null) IN
    /\ characters = r.h.characters
    /\ currentPage = r.h.currentPage
    /\ totalPages = r.h.totalPages
    /\ loading = r.h.loading
    /\ isLoadingMore = r.h.isLoadingMore
    /\ error = r.h.error
    /\ activeFilter = r.h.activeFilter
    /\ isInitialLoadRef = r.h.isInitialLoadRef
    /\ cache = r.cache
    /\ inflight = Tagged(r.fetch, 1, "")
    /\ race = NoRace
    /\ timeoutId = <<>>
    /\ strayTimers = <<>>
    /\ now = 0
    /\ mount = 1
    /\ ev = Ev("mount", 1, Null, r.res, Null)
    /\ delay = searchDelay
    /\ shadow = EmptyCache
    /\ calls = <<>>
    /\ invoked = <<>>
    /\ InitialPage

\* getCharacters of request i resolves
ResolveOk(i) ==
    LET req == inflight[i]
        r == loadDataResolved(HookOf(req.mount), cache, now, req,
                              getCharacters(req.page, req.filter))
    IN  /\ req.page <= ServerPages(req.filter)
        /\ Len(r.h.characters) <= MaxLen
        /\ Commit(Settle(r, req.mount))
        /\ inflight' = Remove(inflight, i)
        /\ ev' = Ev("resolved", req.page, req.filter,
                    IF req.mount = mount THEN "ok" ELSE "detached", Null)
        /\ Outcome(req, "ok")
        /\ Rendered
        /\ UNCHANGED <<timeoutId, strayTimers, now, mount, otherVars>>

\* getCharacters of request i throws err
ResolveFail(i, err) ==
    LET req == inflight[i]
        r == loadDataRejected(HookOf(req.mount), cache, now, req, err)
    IN  /\ Commit(Settle(r, req.mount))
        /\ inflight' = Remove(inflight, i)
        /\ ev' = Ev("resolved", req.page, req.filter,
                    IF req.mount = mount THEN "failed" ELSE "detached",
                    IF err.isError THEN err.message ELSE Undefined)
        /\ Outcome(req, "failed")
        /\ Rendered
        /\ UNCHANGED <<timeoutId, strayTimers, now, mount, otherVars>>

\* onLoadMore={loadNextPage}: what a call of loadNextPage() does to the hook
onLoadMore ==
    LET r == loadNextPage(Hook, cache, now) IN
    /\ Len(r.h.characters) <= MaxLen
    /\ Len(inflight) + Len(r.fetch) <= MaxInflight
    /\ Commit(r)
    /\ inflight' = IF r.res = "none" THEN inflight
                   ELSE Retagged(inflight, FALSE) \o Tagged(r.fetch, mount, "")
    /\ race' = IF r.res = "none" THEN race ELSE NoRace
    /\ ev' = Ev("loadNextPage", currentPage + 1, activeFilter, r.res, Null)
    /\ UNCHANGED <<timeoutId, strayTimers, now, mount, otherVars>>

\* loadNextPage() is called
LoadNextPage == onLoadMore /\ Rendered

\* onFilterChange={applyFilters}: what a call of applyFilters(filters) does
\* to the hook
onFilterChange(filters) ==
    LET r == applyFilters(Hook, cache, now, filters)
        stray == IF Replaced(activeFilter, r.h.activeFilter)
                 THEN strayTimers \o timeoutId ELSE strayTimers
    IN  /\ Len(inflight) + Len(r.fetch) <= MaxInflight
        /\ Len(stray) <= MaxStray
        /\ Commit(r)
        /\ FilterChange(r)
        /\ strayTimers' = stray
        /\ timeoutId' = IF Replaced(activeFilter, r.h.activeFilter)
                        THEN <<>> ELSE timeoutId
        /\ ev' = Ev("applyFilters", 1, r.h.activeFilter, r.res, Obj(filters))
        /\ UNCHANGED <<now, mount, otherVars>>

\* applyFilters(filters) is called
ApplyFilters(filters) == onFilterChange(filters) /\ Rendered

\* searchCharacters may still be called at time t
CanSearchAt(t) ==
    Len(calls) < MaxSearches /\ (t % maxAge) + searchDelay <= Slack

\* the search box calls searchCharacters(query)
SearchCharacters(query) ==
    /\ CanSearchAt(now)
    /\ timeoutId' = debounced(timeoutId, PerformSearchOf(mount, activeFilter),
                              query, searchDelay, now)
    /\ calls' = Append(calls, [args |-> query, at |-> now])
    /\ ev' = Ev("searchCharacters", 0, activeFilter, "none", query)
    /\ UNCHANGED <<hookVars, cache, inflight, strayTimers, now, mount, race,
                   delay, shadow, invoked, pageVars>>

\* the pending timeout of the current debounced function fires
FireSearch ==
    /\ timeoutId # <<>>
    /\ Due(timeoutId[1], now)
    /\ LET tm == timeoutId[1]
           r == performSearch(Hook, cache, now, tm.func.captured, tm.args)
       IN  /\ Len(inflight) + Len(r.fetch) <= MaxInflight
           /\ Commit(r)
           /\ FilterChange(r)
           /\ timeoutId' = <<>>
           /\ invoked' = Append(invoked, [args |-> tm.args,
                                          filter |-> r.h.activeFilter, at |-> now])
           /\ ev' = Ev("search", 1, r.h.activeFilter, r.res, tm.args)
           /\ Rendered
           /\ UNCHANGED <<strayTimers, now, mount, delay, shadow, calls>>

\* a timeout of a debounced function that was replaced fires
FireStray(j) ==
    LET tm == strayTimers[j]
        m == tm.func.mount
        r == performSearch(HookOf(m), cache, now, tm.func.captured, tm.args)
        replaced == m = mount /\ Replaced(activeFilter, r.h.activeFilter)
    IN  /\ Due(tm, now)
        /\ Len(inflight) + Len(r.fetch) <= MaxInflight
        /\ Commit(Settle(r, m))
        /\ IF m = mount THEN FilterChange(r)
           ELSE /\ inflight' = inflight \o Tagged(r.fetch, m, "")
                /\ race' = race
        /\ strayTimers' = Remove(strayTimers, j) \o
                          (IF replaced THEN timeoutId ELSE <<>>)
        /\ timeoutId' = IF replaced THEN <<>> ELSE timeoutId
        /\ ev' = Ev(IF m = mount THEN "straySearch" ELSE "detachedSearch",
                    1, finalFilter(searchFilter(tm.func.captured, tm.args)),
                    r.res, tm.args)
        /\ invoked' = Append(invoked, [args |-> tm.args,
                                       filter |-> r.h.activeFilter, at |-> now])
        /\ Rendered
        /\ UNCHANGED <<now, mount, delay, shadow, calls>>

\* the earliest due time of the timeouts in ts that lies after t, else dflt
RECURSIVE NextDue(_, _, _)
NextDue(ts, t, dflt) ==
    IF ts = <<>> THEN dflt
    ELSE LET rest == NextDue(Tail(ts), t, dflt)
         IN  IF Head(ts).due > t /\ Head(ts).due < rest
             THEN Head(ts).due ELSE rest

\* time passes while a timeout is pending, to the next instant at which
\* something can happen: Step later while a search may still be typed, else
\* the next due time; a due timeout fires first
Tick ==
    /\ Timers # <<>>
    /\ \A i \in 1..Len(Timers) : ~Due(Timers[i], now)
    /\ now' = IF CanSearchAt(now + Step)
              THEN NextDue(Timers, now, now + Step)
              ELSE NextDue(Timers, now, now + searchDelay)
    /\ UNCHANGED <<hookVars, cache, inflight, timeoutId, strayTimers, mount,
                   ev, race, otherVars, pageVars>>

\* the page stays open, untouched, for longer than the cache keeps entries
LongIdle ==
    /\ Timers = <<>>
    /\ now < maxAge
    /\ now' = now + maxAge + Step
    /\ UNCHANGED <<hookVars, cache, inflight, timeoutId, strayTimers, mount,
                   ev, race, otherVars, pageVars>>

\* the component is unmounted and mounted again: a new instance, whose
\* effect calls loadData(1, null); the module's cache is the same
Remount ==
    LET r == loadData(InitialHook, cache, now, 1, Null) IN
    /\ mount < MaxMounts
    /\ Len(inflight) + Len(r.fetch) <= MaxInflight
    /\ Len(strayTimers \o timeoutId) <= MaxStray
    /\ Commit(r)
    /\ inflight' = Retagged(inflight, FALSE) \o Tagged(r.fetch, mount + 1, "")
    /\ race' = NoRace
    /\ strayTimers' = strayTimers \o timeoutId
    /\ timeoutId' = <<>>
    /\ mount' = mount + 1
    /\ ev' = Ev("mount", 1, Null, r.res, Null)
    /\ localFilter' = "all"
    /\ currentServerFilters' = <<>>
    /\ starredIds' = {}
    /\ UNCHANGED <<now, otherVars, applied>>

\* the hook, its cache and the service
Next ==
    \/ \E i \in 1..Len(inflight) : ResolveOk(i)
    \/ \E i \in 1..Len(inflight), err \in Failures : ResolveFail(i, err)
    \/ LoadNextPage
    \/ \E filters \in Partials : ApplyFilters(filters)
    \/ LongIdle
    \/ Remount

Spec == Init /\ [][Next]_vars

\* some getCharacters call in flight settles
Resolves ==
    \E i \in 1..Len(inflight) :
        \/ ResolveOk(i)
        \/ \E err \in Failures : ResolveFail(i, err)

\* the hook with a service whose calls all settle: the promise of a call in
\* flight is resolved or rejected in the end
NextLive ==
    \/ \E i \in 1..Len(inflight) : ResolveOk(i)
    \/ \E i \in 1..Len(inflight), err \in Failures : ResolveFail(i, err)
    \/ LoadNextPage
    \/ \E filters \in Partials : ApplyFilters(filters)

SpecLive == Init /\ [][NextLive]_vars /\ WF_vars(Resolves)

\* the hook and its debounced search, the service answering every request
NextSearch ==
    \/ \E i \in 1..Len(inflight) : ResolveOk(i)
    \/ \E filters \in SpeciesPartials : ApplyFilters(filters)
    \/ \E query \in Queries : SearchCharacters(query)
    \/ FireSearch
    \/ \E j \in 1..Len(strayTimers) : FireStray(j)
    \/ Tick

SpecSearch == Init /\ [][NextSearch]_vars

-----------------------------------------------------------------------------
(* CharactersPage inside Layout: the handlers of useCharactersPage and the *)
(* intersection observer drive the hook; the page exists in the list view  *)
(* only.                                                                   *)

CharacterTypes == {"all", "starred", "others"}
SpeciesChoices == {"all", "human"}
PageFilters == [characterType : CharacterTypes, species : SpeciesChoices]
PageQueries == {Str(<<" ", "rick", " ">>)}

\* serverFilters of handleApplyFilters: species unless it is "all"
serverFiltersOf(filters) ==
    IF filters.species # "all"
    THEN <<Prop("species", Str(<<filters.species>>))>>
    ELSE <<>>

\* filtersChanged of handleApplyFilters
filtersChanged(serverFilters, current) ==
    JSONstringify(Obj(serverFilters)) # JSONstringify(Obj(current))

\* the argument of handleApplyFilters as a JS object
FiltersArg(filters) ==
    Obj(<<Prop("characterType", Str(<<filters.characterType>>)),
          Prop("species", Str(<<filters.species>>))>>)

\* handleApplyFilters(filters), called by the Filter button of the panel
HandleApplyFilters(filters) ==
    LET serverFilters == serverFiltersOf(filters)
        changed == filtersChanged(serverFilters, currentServerFilters)
    IN  /\ View = "list"
        /\ IF changed
           THEN /\ onFilterChange(serverFilters)
                /\ Render(filters.characterType, serverFilters)
           ELSE /\ ev' = Ev("handleApplyFilters", 0, activeFilter, "none",
                            FiltersArg(filters))
                /\ UNCHANGED <<hookVars, cache, inflight, timeoutId,
                               strayTimers, now, mount, race, otherVars>>
                /\ Render(filters.characterType, currentServerFilters)
        /\ applied' = [called |-> TRUE, species |-> filters.species,
                       forwarded |-> changed,
                       fetched |-> Len(inflight') > Len(inflight)]
        /\ UNCHANGED starredIds

isLocalFilterActive == localFilter # "all"

\* enabled without the Local View Filter
shouldEnableObserver_IgnoresLocal == hasNextPage /\ ~isLoadingMore

\* shouldEnableObserver of CharactersPage
shouldEnableObserver == hasNextPage /\ ~isLoadingMore /\ ~isLocalFilterActive

\* the observer's callback runs for an intersecting entry: onIntersect();
\* the effect of useIntersectionObserver creates the observer only while
\* enabled and the target is rendered
Intersect ==
    /\ View = "list"
    /\ shouldEnableObserver
    /\ hasNextPage
    /\ onLoadMore
    /\ Rendered

\* handleSearch(value), called by the search box
HandleSearch(value) ==
    /\ View = "list"
    /\ SearchCharacters(value)

NextPage ==
    \/ \E i \in 1..Len(inflight) : ResolveOk(i)
    \/ \E i \in 1..Len(inflight), err \in Failures : ResolveFail(i, err)
    \/ \E filters \in PageFilters : HandleApplyFilters(filters)
    \/ Intersect
    \/ \E value \in PageQueries : HandleSearch(value)
    \/ FireSearch
    \/ \E j \in 1..Len(strayTimers) : FireStray(j)
    \/ Tick

SpecPage == Init /\ [][NextPage]_vars

-----------------------------------------------------------------------------
(* The service over HTTP: every getCharacters call of the hook is answered *)
(* by one of the outcomes fetch can have, and GraphQLClient.request and    *)
(* CharacterService.getCharacters turn it into a value or a thrown error.  *)

\* what fetch rejects with when the network call fails
FetchError == [isError |-> TRUE, message |-> Str(<<"Failed to fetch">>)]

\* reading .results of undefined, in the try block of loadData
ResultsOfUndefined ==
    [isError |-> TRUE,
     message |-> Str(<<"Cannot read properties of undefined">>)]

\* new Error(message)
NewError(message) == [isError |-> TRUE, message |-> Str(message)]

Returned(value) == [threw |-> FALSE, value |-> value]
Thrown(err) == [threw |-> TRUE, value |-> err]

\* errors.map((e) => e.message).join(", ")
RECURSIVE Joined(_)
Joined(messages) ==
    IF messages = <<>> THEN <<>>
    ELSE IF Len(messages) = 1 THEN <<messages[1]>>
    ELSE <<messages[1], ", ">> \o Joined(Tail(messages))

\* request that returns the data although the response reports errors
GraphQLClient_request_IgnoresErrors(resp) ==
    IF resp.network # "ok" THEN Thrown(resp.error)
    ELSE IF ~resp.ok
    THEN Thrown(NewError(<<"GraphQL request failed: ", resp.statusText>>))
    ELSE IF ~Truthy(resp.json.data)
    THEN Thrown(NewError(<<"GraphQL response has no data">>))
    ELSE Returned(resp.json.data)

\* GraphQLClient.request for the outcome resp of fetch: the data returned
\* or the error thrown (the catch block rethrows what it caught)
GraphQLClient_request(resp) ==
    IF resp.network # "ok" THEN Thrown(resp.error)
    ELSE IF ~resp.ok
    THEN Thrown(NewError(<<"GraphQL request failed: ", resp.statusText>>))
    ELSE IF Truthy(resp.json.errors) /\ Len(resp.json.errors.v) > 0
    THEN Thrown(NewError(<<"GraphQL errors: ">> \o Joined(resp.json.errors.v)))
    ELSE IF ~Truthy(resp.json.data)
    THEN Thrown(NewError(<<"GraphQL response has no data">>))
    ELSE Returned(resp.json.data)

\* CharacterService.getCharacters: data.characters, or the error of request
\* thrown again
CharacterService_getCharacters(resp) ==
    LET data == GraphQLClient_request(resp) IN
    IF data.threw THEN Thrown(data.value)
    ELSE Returned(GetProp(data.value.v, "characters"))

\* the bodies a successful HTTP response to the query of (page, filter) can
\* carry
ErrorLists == {Undefined, Arr(<<>>), Arr(<<"not found">>),
               Arr(<<"not found", "bad page">>)}
Payloads(page, filter) ==
    {Undefined, Null, Obj(<<>>),
     Obj(<<Prop("characters", Obj(getCharacters(page, filter)))>>)}

\* the outcomes of fetch for the query of (page, filter)
Responses(page, filter) ==
    {[network |-> "failed", error |-> FetchError]}
    \cup {[network |-> "ok", ok |-> FALSE, statusText |-> "Not Found"]}
    \cup {[network |-> "ok", ok |-> TRUE, statusText |-> "OK",
           json |-> [errors |-> errors, data |-> data]] :
             errors \in ErrorLists, data \in Payloads(page, filter)}

\* fetch settles with resp for request i, and loadData goes on after its
\* await
Respond(i, resp) ==
    LET req == inflight[i]
        got == CharacterService_getCharacters(resp)
        err == IF got.threw THEN got.value ELSE ResultsOfUndefined
        failed == got.threw \/ ~Truthy(got.value)
        r == IF failed
             THEN loadDataRejected(HookOf(req.mount), cache, now, req, err)
             ELSE loadDataResolved(HookOf(req.mount), cache, now, req,
                                   got.value.v)
    IN  /\ resp \in Responses(req.page, req.filter)
        /\ Len(r.h.characters) <= MaxLen
        /\ Commit(Settle(r, req.mount))
        /\ inflight' = Remove(inflight, i)
        /\ ev' = Ev("responded", req.page, req.filter,
                    IF failed THEN "failed" ELSE "ok", resp)
        /\ Outcome(req, IF failed THEN "failed" ELSE "ok")
        /\ Rendered
        /\ UNCHANGED <<timeoutId, strayTimers, now, mount, otherVars>>

NextService ==
    \/ \E i \in 1..Len(inflight) :
           \E resp \in Responses(inflight[i].page, inflight[i].filter) :
               Respond(i, resp)
    \/ LoadNextPage
    \/ \E filters \in Partials : ApplyFilters(filters)

SpecService == Init /\ [][NextService]_vars

-----------------------------------------------------------------------------
(* The derived lists of useCharactersPage, for any Accumulated List: the   *)
(* list is drawn from ViewLists, stars are toggled and the Local View      *)
(* Filter is applied.                                                      *)

\* the characters as they are, duplicates included
uniqueCharacters_NoDedup(chars) == chars

\* Array.from(new Map(characters.map((char) => [char.id, char])).values()):
\* one entry per id, at the position of the first entry with the id and
\* with the value of the last
uniqueCharacters(chars) ==
    LET isFirst(i) == \A j \in 1..(i - 1) : chars[j].id # chars[i].id
        last(id) == CHOOSE j \in 1..Len(chars) :
                        /\ chars[j].id = id
                        /\ \A k \in (j + 1)..Len(chars) : chars[k].id # id
        RECURSIVE values(_)
        values(i) ==
            IF i > Len(chars) THEN <<>>
            ELSE (IF isFirst(i) THEN <<chars[last(chars[i].id)]>> ELSE <<>>)
                 \o values(i + 1)
    IN  values(1)

\* starredIds.has(char.id)
isStarred(char) == char.id \in starredIds
notStarred(char) == char.id \notin starredIds

filteredCharacters ==
    IF localFilter = "starred"
    THEN SelectSeq(uniqueCharacters(characters), isStarred)
    ELSE IF localFilter = "others"
    THEN SelectSeq(uniqueCharacters(characters), notStarred)
    ELSE uniqueCharacters(characters)

starredCharacters == SelectSeq(filteredCharacters, isStarred)

regularCharacters == SelectSeq(filteredCharacters, notStarred)

hasLocalResults == Len(filteredCharacters) > 0

\* a toggle that only ever adds
handleToggleStar_AddOnly(prev, id) == prev \cup {id}

\* the updater of handleToggleStar(id): a copy of prev without id if it has
\* it, else with it
handleToggleStar(prev, id) ==
    IF id \in prev THEN prev \ {id} ELSE prev \cup {id}

\* handleToggleStar(id), called by the star of a card on the page
ToggleStar(id) ==
    /\ View = "list"
    /\ id \in Ids(filteredCharacters)
    /\ starredIds' = handleToggleStar(starredIds, id)
    /\ ev' = Ev("toggleStar", 0, activeFilter, "none", id)
    /\ UNCHANGED <<hookVars, cache, inflight, timeoutId, strayTimers, now,
                   mount, race, otherVars, localFilter, currentServerFilters,
                   applied>>

\* longest list and largest id of ViewLists
MaxViewLen == 3
MaxViewId == 2

ViewEntities == {Entity(id, rev) : id \in 1..MaxViewId, rev \in 1..2}
ViewLists == UNION {[1..n -> ViewEntities] : n \in 0..MaxViewLen}

\* the list view over any list of characters, any Starred Set and any Local
\* View Filter
InitView ==
    /\ characters \in ViewLists
    /\ currentPage = 1
    /\ totalPages = 1
    /\ loading = FALSE
    /\ isLoadingMore = FALSE
    /\ error = Null
    /\ activeFilter = Null
    /\ isInitialLoadRef = FALSE
    /\ cache = EmptyCache
    /\ inflight = <<>>
    /\ race = NoRace
    /\ timeoutId = <<>>
    /\ strayTimers = <<>>
    /\ now = 0
    /\ mount = 1
    /\ ev = Ev("render", 0, Null, "none", Null)
    /\ delay = searchDelay
    /\ shadow = EmptyCache
    /\ calls = <<>>
    /\ invoked = <<>>
    /\ localFilter \in CharacterTypes
    /\ currentServerFilters = <<>>
    /\ starredIds \in SUBSET (1..MaxViewId)
    /\ applied = NoApply

NextView ==
    \/ \E id \in 1..MaxViewId : ToggleStar(id)
    \/ \E type \in CharacterTypes :
           HandleApplyFilters([characterType |-> type, species |-> "all"])

SpecView == InitView /\ [][NextView]_vars

-----------------------------------------------------------------------------
(* debounce(func, delay) on its own: a debounced function is created with  *)
(* one of Delays, called with arguments from Queries, and its timeout      *)
(* invokes func.  The hook does not take part.                             *)

Delays == {searchDelay - Step, searchDelay}

\* the func handed to debounce
TheFunc == PerformSearchOf(0, Null)

\* no hook is mounted
NoHook ==
    /\ characters = InitialHook.characters
    /\ currentPage = InitialHook.currentPage
    /\ totalPages = InitialHook.totalPages
    /\ loading = InitialHook.loading
    /\ isLoadingMore = InitialHook.isLoadingMore
    /\ error = InitialHook.error
    /\ activeFilter = InitialHook.activeFilter
    /\ isInitialLoadRef = InitialHook.isInitialLoadRef
    /\ inflight = <<>>
    /\ race = NoRace
    /\ strayTimers = <<>>
    /\ mount = 0
    /\ InitialPage

InitDebounce ==
    /\ NoHook
    /\ cache = EmptyCache
    /\ timeoutId = <<>>
    /\ now = 0
    /\ ev = Ev("debounce", 0, Null, "none", Null)
    /\ delay \in Delays
    /\ shadow = EmptyCache
    /\ calls = <<>>
    /\ invoked = <<>>

\* debounced(args) is called
DebCall(args) ==
    /\ Len(calls) < MaxCalls
    /\ timeoutId' = debounced(timeoutId, TheFunc, args, delay, now)
    /\ calls' = Append(calls, [args |-> args, at |-> now])
    /\ UNCHANGED <<hookVars, cache, inflight, strayTimers, now, mount, ev,
                   race, delay, shadow, invoked, pageVars>>

\* a timeout set by debounced runs its callback: func(...args)
DebFire(i) ==
    /\ Due(timeoutId[i], now)
    /\ invoked' = Append(invoked, [args |-> timeoutId[i].args, at |-> now])
    /\ timeoutId' = Remove(timeoutId, i)
    /\ UNCHANGED <<hookVars, cache, inflight, strayTimers, now, mount, ev,
                   race, delay, shadow, calls, pageVars>>

\* time passes, up to the next due time; a due timeout fires first
DebTick ==
    /\ \A i \in 1..Len(timeoutId) : ~Due(timeoutId[i], now)
    /\ now < MaxTime * Step
    /\ now' = NextDue(timeoutId, now, now + Step)
    /\ UNCHANGED <<hookVars, cache, inflight, timeoutId, strayTimers, mount,
                   ev, race, otherVars, pageVars>>

NextDebounce ==
    \/ \E args \in Queries : DebCall(args)
    \/ \E i \in 1..Len(timeoutId) : DebFire(i)
    \/ DebTick

SpecDebounce == InitDebounce /\ [][NextDebounce]_vars

-----------------------------------------------------------------------------
(* SearchCache on its own: set, get and clear are called with keys from    *)
(* CacheKeys and values from CacheValues while the clock advances by one   *)
(* of Advances.  The hook does not take part.                              *)

CacheKeys == {getCacheKey(1, Null), getCacheKey(2, Null)}
CacheValues == {Null, Arr(<<Entity(1, 1)>>)}
Advances == {maxAge, maxAge + 1}

\* the last cache operation: its name, key, time and (for get) result
CacheEv(op, key, result, at) ==
    [op |-> op, key |-> key, result |-> result, at |-> at]

cacheFrame == <<hookVars, inflight, timeoutId, strayTimers, mount, race,
                delay, calls, invoked, pageVars>>

InitCache ==
    /\ NoHook
    /\ cache = EmptyCache
    /\ timeoutId = <<>>
    /\ now = 0
    /\ ev = CacheEv("new", <<>>, Null, 0)
    /\ delay = searchDelay
    /\ shadow = EmptyCache
    /\ calls = <<>>
    /\ invoked = <<>>

\* searchCache.set(key, data); shadow keeps what was set, and when, whether
\* the Map held an entry for the key (over), and then the time of the first
\* set of that entry and the value replaced
CacheSet(key, data) ==
    /\ cache' = SearchCache_set(cache, key, data, now)
    /\ shadow' = MapSet(shadow, key,
                        [data |-> data, timestamp |-> now,
                         over |-> key \in DOMAIN cache,
                         first |-> IF key \in DOMAIN cache
                                   THEN shadow[key].first ELSE now,
                         old |-> IF key \in DOMAIN cache
                                 THEN shadow[key].data ELSE Undefined])
    /\ ev' = CacheEv("set", key, Null, now)
    /\ UNCHANGED <<now, cacheFrame>>

\* searchCache.get(key)
CacheGet(key) ==
    LET got == SearchCache_get(cache, key, now) IN
    /\ cache' = got.cache
    /\ ev' = CacheEv("get", key, got.result, now)
    /\ UNCHANGED <<now, shadow, cacheFrame>>

\* searchCache.clear()
CacheClear ==
    /\ cache # EmptyCache
    /\ cache' = SearchCache_clear(cache)
    /\ shadow' = EmptyCache
    /\ ev' = CacheEv("clear", <<>>, Null, now)
    /\ UNCHANGED <<now, cacheFrame>>

\* time passes
CacheAdvance(d) ==
    /\ now + d <= MaxIdles * (maxAge + 1)
    /\ now' = now + d
    /\ UNCHANGED <<cache, shadow, ev, cacheFrame>>

NextCache ==
    \/ \E key \in CacheKeys, data \in CacheValues : CacheSet(key, data)
    \/ \E key \in CacheKeys : CacheGet(key)
    \/ CacheClear
    \/ \E d \in Advances : CacheAdvance(d)

SpecCache == InitCache /\ [][NextCache]_vars

-----------------------------------------------------------------------------
(* Properties *)

Unique(list) == Cardinality(Ids(list)) = Len(list)

\* C1: in every reachable state of the hook the Accumulated List
\* (characters) holds no two entries with the same id.
C1_NoDuplicateIds == Unique(characters)

\* C2: when a filter change (applyFilters or a fired search) started
\* load(1, newFilter) while a loadNextPage fetch of another filter was in
\* flight and both have completed successfully, in either order, the list
\* is exactly page 1 of the new filter and currentPage is 1.
C2_FilterChangeWinsRace ==
    (race.changed /\ race.old = "ok" /\ race.new \in {"ok", "hit"}) =>
        /\ characters = ServerResults(race.filter, 1)
        /\ currentPage = 1

\* C3: after a filter change has completed successfully, from the network
\* or from the cache, currentPage is 1 and the list is exactly page 1 of
\* the filter it applied.
C3_FilterChangeResets ==
    /\ (ev.op \in {"applyFilters", "search"} /\ ev.res = "hit") =>
           /\ currentPage = 1
           /\ characters = ServerResults(ev.filter, 1)
    /\ (ev.op = "resolved" /\ ev.res = "ok" /\ ev.page = 1) =>
           /\ currentPage = 1
           /\ characters = ServerResults(ev.filter, 1)

\* the Map holds an entry under key that has not outlived maxAge at time t
Unexpired(c, key, t) == key \in DOMAIN c /\ t - c[key].timestamp <= maxAge

\* a step that starts a getCharacters call, and the call it starts
StartsFetch == Len(inflight') = Len(inflight) + 1
Started == inflight'[Len(inflight')]

\* C4: a load calls the service only when the cache holds no unexpired entry
\* under the key of its (page, filter); a mount that finds page 1 cached
\* and unexpired shows the cached items and calls the service not at all.
C4_NoFetchOnCacheHit ==
    [][/\ StartsFetch =>
            /\ Started.cacheKey = getCacheKey(Started.page, Started.filter)
            /\ ~Unexpired(cache, Started.cacheKey, now)
       /\ (mount' = mount + 1 /\ Unexpired(cache, getCacheKey(1, Null), now)) =>
            /\ ~StartsFetch
            /\ Arr(characters') = cache[getCacheKey(1, Null)].data]_vars

\* C4 witness: a second mount was served page 1 by the cache, nothing in
\* flight
C4_Witness ==
    /\ mount = 2 /\ ev.op = "mount" /\ ev.res = "hit"
    /\ inflight = <<>>
    /\ characters = ServerResults(Null, 1)

\* a step in which a getCharacters call of the mounted instance fails
FetchFails ==
    /\ Len(inflight') = Len(inflight) - 1
    /\ ev'.op = "resolved" /\ ev'.res = "failed"

\* C5: a failing fetch stores the failure's message, or the fallback text
\* when the failure is not an Error, and changes none of the list,
\* currentPage, totalPages and the cache.
C5_FailureKeepsData ==
    [][FetchFails =>
          /\ error' = IF ev'.arg = Undefined
                      THEN Str(<<"Failed to load characters">>) ELSE ev'.arg
          /\ UNCHANGED <<characters, currentPage, totalPages, cache>>]_vars

\* C5 witness: a load-more fetch failed with a value that is not an Error,
\* the list already populated
C5_Witness ==
    /\ ev.op = "resolved" /\ ev.res = "failed" /\ ev.page > 1
    /\ ev.arg = Undefined
    /\ error = Str(<<"Failed to load characters">>)
    /\ Len(characters) > 0
    /\ cache # EmptyCache

\* a fetch started by loadNextPage of the mounted instance is in flight
\* (loadNextPage is the only caller of loadData with a page above 1)
LoadMoreInFlight ==
    \E i \in 1..Len(inflight) :
        inflight[i].mount = mount /\ inflight[i].page > 1

\* a step that is a call of loadNextPage
CallsLoadNextPage == ev'.op = "loadNextPage" /\ now' = now /\ mount' = mount

\* the step starts exactly one load of (page, filter): a fetch, or a read
\* served by the cache
StartsLoad(page, filter) ==
    \/ /\ StartsFetch
       /\ Started.page = page /\ Started.filter = filter
    \/ /\ Len(inflight') = Len(inflight)
       /\ ev'.res = "hit" /\ ev'.page = page /\ ev'.filter = filter

\* a fetch started after the initial load by the mounted instance is in
\* flight
LaterFetchInFlight ==
    \E i \in 1..Len(inflight) :
        inflight[i].mount = mount /\ ~inflight[i].initial

\* C6: loadNextPage starts no load when currentPage >= totalPages or a
\* load-more fetch is in flight; otherwise it starts exactly one load, for
\* page currentPage + 1 with the active filter.  (A call made while only a
\* filter-change fetch is in flight is left unconstrained: it is not a
\* load-more fetch by origin, but it raised the same flag.)
C6_LoadNextPageGuard ==
    [][CallsLoadNextPage =>
          IF currentPage >= totalPages \/ LoadMoreInFlight
          THEN /\ ev'.res = "none"
               /\ UNCHANGED <<inflight, characters, cache>>
          ELSE ~LaterFetchInFlight => StartsLoad(currentPage + 1, activeFilter)]_vars

\* the calls made so far are one burst: each less than delay after the
\* previous one
Burst ==
    /\ Len(calls) >= 1
    /\ \A i \in 2..Len(calls) : calls[i].at - calls[i - 1].at < delay

LastCall == calls[Len(calls)]

\* C7: when the debounced function has been called N >= 1 times, each call
\* less than delay after the previous one, func is invoked at most once,
\* never before delay has passed since the last call, exactly then, with
\* the arguments of the last call, and it has been invoked once the clock
\* is past that time.
C7_DebounceBurst ==
    Burst =>
        /\ Len(invoked) <= 1
        /\ \A i \in 1..Len(invoked) :
               /\ invoked[i].args = LastCall.args
               /\ invoked[i].at = LastCall.at + delay
        /\ now > LastCall.at + delay => Len(invoked) = 1

C7_Witness ==
    /\ Len(calls) = 3 /\ Burst
    /\ calls[1].args # LastCall.args /\ calls[2].args # LastCall.args
    /\ calls[1].at < calls[2].at /\ calls[2].at < calls[3].at
    /\ Len(invoked) = 1 /\ invoked[1].args = LastCall.args
    /\ now > LastCall.at + delay

\* searchCharacters has been called several times, each call less than
\* 300 ms after the previous one
SearchBurst ==
    /\ Len(calls) >= 2
    /\ \A i \in 2..Len(calls) : calls[i].at - calls[i - 1].at < searchDelay

\* the name a filter built from query carries: the trimmed query, none when
\* that is empty
NameOfQuery(query) ==
    IF trim(query.v) = <<>> THEN Undefined ELSE Str(trim(query.v))

\* C8: a burst of searchCharacters calls results in one filter application
\* (one performSearch, hence one load(1, filter)): never more than one, its
\* filter's name is the trimmed query of the last call, and it has happened
\* once no timeout is pending any more.
C8_SearchBurstOnce ==
    SearchBurst =>
        /\ Len(invoked) <= 1
        /\ \A i \in 1..Len(invoked) :
               GetProp(PropsOf(invoked[i].filter), "name") =
                   NameOfQuery(LastCall.args)
        /\ Timers = <<>> => Len(invoked) = 1

\* the last operation was get(key) and key was set, and not cleared since,
\* age ms before it
GotAfterSet(key, age) ==
    /\ ev.op = "get" /\ ev.key = key
    /\ key \in DOMAIN shadow
    /\ ev.at - shadow[key].timestamp = age

\* C9: a get(key) made no more than maxAge after the last set(key, v)
\* returns v, whatever was set and read on other keys in between.
C9_SetThenGet ==
    \A key \in CacheKeys :
        (/\ ev.op = "get" /\ ev.key = key
         /\ key \in DOMAIN shadow
         /\ ev.at - shadow[key].timestamp <= maxAge)
            => ev.result = shadow[key].data

C9_Witness ==
    LET key == getCacheKey(1, Null)
        other == getCacheKey(2, Null)
    IN  /\ GotAfterSet(key, maxAge)
        /\ ev.result = Arr(<<Entity(1, 1)>>)
        /\ other \in DOMAIN shadow
        /\ shadow[other].timestamp > shadow[key].timestamp
        /\ shadow[other].data # shadow[key].data

\* a step that is get(key), set(key, ...) or clear()
GetStep(key) == ev'.op = "get" /\ ev'.key = key /\ ev'.at = now /\ now' = now
SetStep(key) == ev'.op = "set" /\ ev'.key = key /\ ev'.at = now /\ now' = now
ClearStep == ev'.op = "clear" /\ ev'.at = now /\ now' = now

Expired(key) == key \in DOMAIN cache /\ now - cache[key].timestamp > maxAge

\* C10: a get(key) of an entry stored more than maxAge ago returns absent
\* and removes the entry; an absent key reads as absent and stays absent
\* until set(key, ...); an entry is removed only by such an expired read
\* or by clear.
C10_ExpiredReadEvicts ==
    [][\A key \in CacheKeys :
          /\ (GetStep(key) /\ Expired(key)) =>
                 (ev'.result = Null /\ key \notin DOMAIN cache')
          /\ (GetStep(key) /\ key \notin DOMAIN cache) =>
                 (ev'.result = Null /\ key \notin DOMAIN cache')
          /\ (key \notin DOMAIN cache /\ key \in DOMAIN cache') => SetStep(key)
          /\ (key \in DOMAIN cache /\ key \notin DOMAIN cache') =>
                 (ClearStep \/ (GetStep(key) /\ Expired(key)))]_vars

C10_Witness ==
    LET key == getCacheKey(1, Null) IN
    /\ GotAfterSet(key, maxAge + 1)
    /\ shadow[key].data # Null
    /\ ev.result = Null
    /\ key \notin DOMAIN cache

\* the last operation was get(key), and the latest set(key, ...) before it
\* replaced an entry the Map held
GotAfterOverwrite(key) ==
    /\ ev.op = "get" /\ ev.key = key
    /\ key \in DOMAIN shadow
    /\ shadow[key].over

\* C11: after set(key, v2) on a key that holds an entry, a get(key) returns
\* v2 as long as no more than maxAge has passed since that latest set, also
\* when the first set is older than maxAge, and returns absent once more
\* than maxAge has passed since the latest set.
C11_OverwriteRestartsAge ==
    \A key \in CacheKeys :
        GotAfterOverwrite(key) =>
            ev.result = IF ev.at - shadow[key].timestamp <= maxAge
                        THEN shadow[key].data ELSE Null

C11_Witness ==
    LET key == getCacheKey(1, Null) IN
    /\ GotAfterOverwrite(key)
    /\ shadow[key].old # shadow[key].data
    /\ ev.at - shadow[key].first > maxAge
    /\ ev.at - shadow[key].timestamp <= maxAge
    /\ ev.result = shadow[key].data /\ ev.result # Null

\* the (field, value) pairs of a filter, and those and the page a cache key
\* was built from
FieldsOf(filter) ==
    {<<PropsOf(filter)[i].k, PropsOf(filter)[i].v>> :
        i \in 1..Len(PropsOf(filter))}
KeyFields(key) ==
    IF Len(key) = 2 THEN {}
    ELSE {<<key[2][i][1], Str(key[2][i][2])>> : i \in 1..Len(key[2])}
KeyPage(key) == key[Len(key)]

\* the last handler started or finished a load of (ev.page, ev.filter)
LastLoad == ev.op # "searchCharacters" /\ ev.res # "none"

\* C12: the cache key of a load depends only on the page and the set of
\* (field, value) pairs of the filter: an entry stored by an earlier load
\* with the same page and the same fields and values has the key of the
\* last load, whatever the order the fields were applied in, and an entry
\* with that key was stored for the same page, fields and values.
C12_KeyOrderStable ==
    LastLoad =>
        \A key \in DOMAIN cache :
            (KeyPage(key) = ev.page /\ KeyFields(key) = FieldsOf(ev.filter))
                <=> key = getCacheKey(ev.page, ev.filter)

\* prev followed, in order, by the items whose id is not in prev
AppendNew(prev, items) ==
    prev \o SelectSeq(items, LAMBDA ch : ch.id \notin Ids(prev))

\* the step is a loadNextPage served by the cache
NextPageFromCache ==
    CallsLoadNextPage /\ ev'.res = "hit" /\ inflight' = inflight

\* the step completes, from the network, the loadNextPage made in this
\* state's page and filter
NextPageFromNetwork ==
    /\ Len(inflight') = Len(inflight) - 1
    /\ ev'.op = "resolved" /\ ev'.res = "ok"
    /\ ev'.page = currentPage + 1 /\ ev'.filter = activeFilter

\* C13: a loadNextPage that completes successfully from currentPage = n,
\* from the network or from the cache, leaves currentPage = n + 1 and the
\* list equal to the previous list followed by the items of page n + 1
\* whose ids were not present.
C13_NextPageAppendsUnique ==
    [][/\ NextPageFromCache =>
            /\ currentPage' = currentPage + 1
            /\ characters' =
                  AppendNew(characters,
                            cache[getCacheKey(currentPage + 1, activeFilter)].data.v)
       /\ NextPageFromNetwork =>
            /\ currentPage' = currentPage + 1
            /\ characters' =
                  AppendNew(characters,
                            ServerResults(activeFilter, currentPage + 1))]_vars

\* the step stores a new activeFilter in the mounted instance
ActiveFilterChanges == activeFilter' # activeFilter /\ mount' = mount

\* C14: when the active filter changes the list is reset: right after the
\* change it is empty, or already page 1 of the new filter when the cache
\* served it; it holds no entity fetched under the previous filter.
C14_FilterChangeClearsList ==
    [][ActiveFilterChanges =>
          \/ characters' = <<>>
          \/ /\ ev'.res = "hit"
             /\ characters' = ServerResults(activeFilter', 1)]_vars

\* the last handler was the failure of a load-more fetch: a page above 1,
\* the initial load over and the list populated
LoadMoreFailed ==
    /\ ev.op = "resolved" /\ ev.res = "failed" /\ ev.page > 1
    /\ ~loading
    /\ Len(characters) > 0

\* C17: after a load-more failure the view still shows the list; the error
\* screen replaces it only when the initial load fails.
C17_LoadMoreFailureKeepsList ==
    LoadMoreFailed => View = "list"

\* a load is under way or was just served by the cache
LoadStarted == inflight # <<>> \/ ev.res = "hit"

FlagsCleared == ~loading /\ ~isLoadingMore /\ ~isInitialLoadRef

\* C18: every load, ending in a cache hit, a successful fetch or a failed
\* fetch, is followed, the service call settling, by a state with loading
\* and isLoadingMore false and isInitialLoadRef false, and isInitialLoadRef
\* stays false from then on.
C18_FlagsEventuallyCleared ==
    /\ LoadStarted ~> FlagsCleared
    /\ [](~isInitialLoadRef => []~isInitialLoadRef)

C18_Witness ==
    /\ ev.op = "resolved" /\ ev.res = "failed" /\ ev.page > 1
    /\ inflight = <<>>
    /\ FlagsCleared

\* a step that is a call of applyFilters; ev'.arg is the partial filter
CallsApplyFilters == ev'.op = "applyFilters" /\ now' = now /\ mount' = mount

Keys(fields) == {f[1] : f \in fields}

\* the fields of prev overridden by those of partial, the empty ones removed
Overridden(prev, partial) ==
    LET merged == {f \in FieldsOf(prev) : f[1] \notin Keys(FieldsOf(partial))}
                      \cup FieldsOf(partial)
    IN  {f \in merged : f[2] \notin {Undefined, Null, Str(<<>>)}}

\* absent, or a non-empty mapping with one non-empty string per field
WellFormed(filter) ==
    \/ filter = Null
    \/ /\ filter.t = "object"
       /\ Len(filter.v) > 0
       /\ Cardinality(Keys(FieldsOf(filter))) = Len(filter.v)
       /\ \A f \in FieldsOf(filter) : f[2].t = "string" /\ f[2].v # <<>>

\* C19: applyFilters(partial) stores the previous activeFilter overridden by
\* partial with the undefined, null and empty fields removed, null when
\* nothing is left, and starts one load of page 1 with it; activeFilter is
\* always null or a non-empty mapping of non-empty values.
C19_ApplyFiltersMerges ==
    [][/\ WellFormed(activeFilter')
       /\ CallsApplyFilters =>
             /\ FieldsOf(activeFilter') = Overridden(activeFilter, ev'.arg)
             /\ StartsLoad(1, activeFilter')]_vars

C19_Witness ==
    /\ ev.op = "applyFilters"
    /\ ev.arg = Obj(<<Prop("species", Str(<<>>))>>)
    /\ activeFilter = Obj(<<Prop("name", Str(<<"rick">>))>>)
    /\ ev.filter = activeFilter

\* a step that is a call of handleApplyFilters; applied is the call before
\* it, applied' this one
CallsHandleApplyFilters ==
    /\ ev'.op \in {"applyFilters", "handleApplyFilters"}
    /\ now' = now /\ mount' = mount

\* C15: of two consecutive calls of handleApplyFilters with the same species
\* at most one forwards a filter change to the hook and at most one has the
\* service called, whatever their characterType.
C15_SameSpeciesForwardedOnce ==
    [][(CallsHandleApplyFilters /\ applied.called
          /\ applied'.species = applied.species) =>
         /\ ~(applied.forwarded /\ applied'.forwarded)
         /\ ~(applied.fetched /\ applied'.fetched)]_vars

\* C16: the viewport signal calls loadNextPage only in states where
\* hasNextPage is true, isLoadingMore is false and the Local View Filter is
\* "all": never while it is "starred" or "others".
C16_ObserverOffUnderLocalFilter ==
    [][CallsLoadNextPage =>
         /\ localFilter = "all"
         /\ hasNextPage
         /\ ~isLoadingMore]_vars

\* C16 witness: the list is shown with a next page and no load-more in
\* flight, and only the Local View Filter keeps the observer off
C16_Witness ==
    /\ View = "list"
    /\ localFilter = "others"
    /\ hasNextPage /\ ~isLoadingMore
    /\ Len(characters) > 0
    /\ applied.called

\* sub is full with some entries left out, the others in the same order
RECURSIVE Sublist(_, _)
Sublist(sub, full) ==
    IF sub = <<>> THEN TRUE
    ELSE IF full = <<>> THEN FALSE
    ELSE IF Head(sub) = Head(full) THEN Sublist(Tail(sub), Tail(full))
    ELSE Sublist(sub, Tail(full))

Entries(list) == {list[i] : i \in 1..Len(list)}

\* the ids the Local View Filter lets through
Passes(id) ==
    \/ localFilter = "all"
    \/ localFilter = "starred" /\ id \in starredIds
    \/ localFilter = "others" /\ id \notin starredIds

\* C20: for every characters list, Starred Set and Local View Filter,
\* filteredCharacters has unique ids, exactly those of the list that pass
\* the filter; starredCharacters and regularCharacters are disjoint,
\* order-preserving sublists of it that together hold all its entries;
\* hasLocalResults says it is non-empty, isLocalFilterActive that the filter
\* is not "all".
C20_DerivedLists ==
    /\ Unique(filteredCharacters)
    /\ Ids(filteredCharacters) = {id \in Ids(characters) : Passes(id)}
    /\ Entries(filteredCharacters) \subseteq Entries(characters)
    /\ Sublist(starredCharacters, filteredCharacters)
    /\ Sublist(regularCharacters, filteredCharacters)
    /\ Ids(starredCharacters) \cap Ids(regularCharacters) = {}
    /\ Entries(starredCharacters) \cup Entries(regularCharacters)
          = Entries(filteredCharacters)
    /\ Len(starredCharacters) + Len(regularCharacters)
          = Len(filteredCharacters)
    /\ hasLocalResults <=> filteredCharacters # <<>>
    /\ isLocalFilterActive <=> localFilter \in {"starred", "others"}

\* C20 witness: a list with a repeated id, shown under "starred" after a
\* star was toggled, with a starred entry left
C20_Witness ==
    /\ ev.op = "toggleStar"
    /\ ~Unique(characters)
    /\ localFilter = "starred"
    /\ Len(starredCharacters) > 0
    /\ Len(filteredCharacters) < Cardinality(Ids(characters))

\* the entry of key is exactly age ms old
AgedExactly(key, age) ==
    key \in DOMAIN cache /\ now - cache[key].timestamp = age

\* C26: maxAge is 30 minutes (1 800 000 ms) and the comparison with it is
\* strict: a get(key) made exactly maxAge after the set returns the value and
\* keeps the entry; a get removes an entry only when more than maxAge has
\* elapsed.
C26_StrictMaxAge ==
    [][\A key \in CacheKeys :
          /\ maxAge = 1800000
          /\ (GetStep(key) /\ AgedExactly(key, 1800000)) =>
                 (ev'.result = cache[key].data /\ cache' = cache)
          /\ (GetStep(key) /\ key \in DOMAIN cache /\ key \notin DOMAIN cache')
                 => now - cache[key].timestamp > 1800000]_vars

\* C26 witness: a value read back exactly 1 800 000 ms after its set, the
\* entry still held
C26_Witness ==
    LET key == getCacheKey(2, Null) IN
    /\ ev.op = "get" /\ ev.key = key /\ ev.at = now
    /\ AgedExactly(key, 1800000)
    /\ ev.result = cache[key].data /\ ev.result # Null

\* a step that is a call of handleToggleStar; ev'.arg is the id
CallsToggleStar == ev'.op = "toggleStar"

\* C30: a toggle of id changes the membership of id, and of no other id, in
\* the Starred Set, and a second toggle of id gives the set back; it starts
\* no load and leaves the Accumulated List, activeFilter, currentPage,
\* totalPages and the cache as they are.
C30_ToggleStar ==
    [][CallsToggleStar =>
         /\ (ev'.arg \in starredIds') # (ev'.arg \in starredIds)
         /\ starredIds' \ {ev'.arg} = starredIds \ {ev'.arg}
         /\ handleToggleStar(starredIds', ev'.arg) = starredIds
         /\ UNCHANGED <<characters, activeFilter, currentPage, totalPages,
                        cache, inflight>>]_vars

\* C30 witness: the star of id 1 was taken away while id 2 stays starred
C30_Witness ==
    /\ ev.op = "toggleStar" /\ ev.arg = 1
    /\ starredIds = {2}
    /\ Len(characters) > 0

\* C25: a call of handleApplyFilters with the species of the call before it
\* sets the Local View Filter to its characterType, starts no load and
\* leaves the Accumulated List, activeFilter, currentPage, totalPages and
\* the cache unchanged.
C25_TypeOnlyChangeIsLocal ==
    [][(CallsHandleApplyFilters /\ applied.called
          /\ applied'.species = applied.species) =>
         /\ ev'.op = "handleApplyFilters"
         /\ Str(<<localFilter'>>) = GetProp(ev'.arg.v, "characterType")
         /\ UNCHANGED <<characters, activeFilter, currentPage, totalPages,
                        cache, inflight>>]_vars

\* the response is successful, reports no errors and carries data
Successful(resp) ==
    /\ resp.network = "ok" /\ resp.ok
    /\ resp.json.errors \in {Undefined, Arr(<<>>)}
    /\ resp.json.data \notin {Undefined, Null}

\* the message of the failure the transport raises for resp
TransportMessage(resp) ==
    IF resp.network # "ok" THEN resp.error.message
    ELSE IF ~resp.ok
    THEN Str(<<"GraphQL request failed: ", resp.statusText>>)
    ELSE IF resp.json.errors \notin {Undefined, Arr(<<>>)}
    THEN Str(<<"GraphQL errors: ">> \o Joined(resp.json.errors.v))
    ELSE Str(<<"GraphQL response has no data">>)

\* C21: a getCharacters call gives a Page Result only for a response that is
\* successful, reports no errors and carries data; for every other outcome
\* (network failure, non-success status, errors, no data) it fails, and the
\* error message of the hook is the message of the failure the transport
\* raised.
C21_TransportFailuresPropagate ==
    [][ev'.op = "responded" =>
         /\ ev'.res = "ok" => Successful(ev'.arg)
         /\ ~Successful(ev'.arg) =>
               /\ ev'.res = "failed"
               /\ UNCHANGED <<characters, cache>>
               /\ error' = TransportMessage(ev'.arg)]_vars

\* C21 witness: a 200 response with two errors and a data payload has
\* failed a load-more, the list kept and the joined messages shown
C21_Witness ==
    /\ ev.op = "responded" /\ ev.res = "failed" /\ ev.page = 2
    /\ ev.arg.network = "ok" /\ ev.arg.ok
    /\ ev.arg.json.errors = Arr(<<"not found", "bad page">>)
    /\ Truthy(ev.arg.json.data) /\ ev.arg.json.data.v # <<>>
    /\ error = Str(<<"GraphQL errors: ", "not found", ", ", "bad page">>)
    /\ Len(characters) > 0

\* the last handler that ran was performSearch, called by a timeout that was
\* pending on a debounced function when the effect replaced it
ReplacedTimerFired == ev.op \in {"straySearch", "detachedSearch"}

\* C22: a search invocation pending on a debounced function that the effect
\* replaces (performSearch having changed with activeFilter) never fires, and
\* no filter application results from it.
C22_ReplacedTimerAbandoned == ~ReplacedTimerFired

\* a step in which a pending search of the mounted instance fires;
\* ev'.arg is its query
SearchFires == ev'.op \in {"search", "straySearch"} /\ now' = now

\* { name: q }, q being query without its surrounding whitespace
NameFilter(query) == <<Prop("name", Str(trim(query.v)))>>

\* C27: a search that fires with query does what applyFilters({name: q}) does,
\* q being the trimmed query: activeFilter keeps its other fields and gets
\* name = q, or loses name when q is empty (and is absent if nothing is
\* left), and page 1 of it is loaded.
C27_SearchIsApplyFiltersName ==
    [][SearchFires =>
         /\ activeFilter' =
               applyFilters(Hook, cache, now, NameFilter(ev'.arg)).h.activeFilter
         /\ FieldsOf(activeFilter') =
               Overridden(activeFilter, Obj(NameFilter(ev'.arg)))
         /\ StartsLoad(1, activeFilter')]_vars

\* the fetch of the initial load of the mounted instance is in flight
InitialLoadInFlight ==
    \E i \in 1..Len(inflight) :
        inflight[i].mount = mount /\ inflight[i].initial

LaterPageResolves ==
    ev'.op = "resolved" /\ ev'.res = "ok" /\ ev'.page > 1 /\ now' = now
Fetched == getCharacters(ev'.page, ev'.filter).results

\* C29: when a fetched page after the first holds an entity whose id the
\* Accumulated List already has, the list afterwards has one entry with that
\* id and it is the fetched entity, not the one stored before.
C29_LastWriteWins ==
    [][LaterPageResolves =>
         \A i \in 1..Len(Fetched) :
             Fetched[i].id \in Ids(characters) =>
                 /\ \E j \in 1..Len(characters') : characters'[j] = Fetched[i]
                 /\ Cardinality({j \in 1..Len(characters') :
                                   characters'[j].id = Fetched[i].id}) = 1]_vars

\* the entry of key is new or changed in this step
Written(key) ==
    key \in DOMAIN cache' /\ (key \notin DOMAIN cache \/ cache'[key] # cache[key])

\* the filters loads are made with
LoadedFilters == {finalFilter(filters) : filters \in Partials}

\* data is what the service returns for the (page, filter) key stands for
RawItemsOf(key, data) ==
    \E filter \in LoadedFilters :
        \E page \in 1..ServerPages(filter) :
            /\ key = getCacheKey(page, filter)
            /\ data = Arr(getCharacters(page, filter).results)

\* C24: a cache entry is written only when a fetch has resolved, under the
\* key of its (page, filter) and with the items the service returned; every
\* entry of the cache holds the raw items of its (page, filter), not the
\* merged list; a failed fetch, a load served by the cache and a call of
\* the service write nothing.
C24_CacheHoldsRawPages ==
    [][/\ \A key \in DOMAIN cache' : RawItemsOf(key, cache'[key].data)
       /\ \A key \in DOMAIN cache' :
             Written(key) =>
                /\ ev'.op = "resolved" /\ ev'.res \in {"ok", "detached"}
                /\ key = getCacheKey(ev'.page, ev'.filter)
                /\ cache'[key].data = Arr(Fetched)
       /\ (ev'.res \in {"failed", "hit", "miss"} /\ now' = now) =>
             \A key \in DOMAIN cache' : ~Written(key)]_vars

\* C24 witness: page 2 was fetched and merged into a longer list, and its
\* cache entry holds the two items of page 2
C24_Witness ==
    LET key == getCacheKey(2, Null) IN
    /\ ev.op = "resolved" /\ ev.res = "ok" /\ ev.page = 2
    /\ key \in DOMAIN cache
    /\ cache[key].data = Arr(getCharacters(2, Null).results)
    /\ cache[key].data # Arr(characters)
    /\ Len(characters) > 2

\* the handlers a user action runs: a scroll to the end of the list, the
\* Filter button, a search that fires
UserActions == {"loadNextPage", "applyFilters", "search", "straySearch"}

\* C23: the service is called only by a user action (search, applyFilters,
\* scroll-triggered loadNextPage), never by the settling of a fetch or the
\* passing of time; and while the error of a failed fetch is set the
\* observer, although isLoadingMore has cleared, calls no loadNextPage, so a
\* failed load is not retried.
C23_NoAutomaticRetry ==
    [][/\ StartsFetch => ev'.op \in UserActions
       /\ (ev.op = "resolved" /\ ev.res = "failed") => ~StartsFetch
             \/ ev'.op \in UserActions \ {"loadNextPage"}
       /\ Truthy(error) => ev'.op # "loadNextPage"]_vars

\* C23 witness: the fetch of page 2 has failed; a next page exists, no
\* load-more is in flight and no local filter is active, and the error
\* screen stands where the observer would be
C23_Witness ==
    /\ ev.op = "resolved" /\ ev.res = "failed" /\ ev.page = 2
    /\ hasNextPage /\ ~isLoadingMore /\ localFilter = "all"
    /\ Len(characters) > 0
    /\ View = "error"

\* the load of the mounted instance that completed last succeeded: its
\* fetch resolved, or the cache served it
LastLoadSucceeded ==
    \/ ev.op = "resolved" /\ ev.res = "ok"
    \/ /\ ev.op \in {"mount", "loadNextPage", "applyFilters", "search",
                    "straySearch"}
       /\ ev.res = "hit"

\* C36: whenever the load that completed last succeeded, by a fetch or by a
\* cache hit, error is null: a load served by the cache after a failed
\* fetch does not leave the earlier error stored.
C36_SuccessClearsError == LastLoadSucceeded => error = Null

\* C35: isLoadingMore is true in every state in which a fetch started after
\* the initial load is in flight, also when two fetches overlap and one of
\* them has settled; hence loadNextPage starts no fetch while another one
\* is outstanding.
C35_LoadingMoreWhileInFlight ==
    /\ LaterFetchInFlight => isLoadingMore
    /\ (ev.op = "loadNextPage" /\ ev.res = "miss") =>
          \A i \in 1..(Len(inflight) - 1) : inflight[i].mount # mount

\* the page is shown and nothing is pending: no fetch, no timeout
Quiet == View = "list" /\ inflight = <<>> /\ Timers = <<>>

\* the species a filter or a server fragment constrains, undefined if none
SpeciesOf(props) == GetProp(props, "species")

\* C31: whenever nothing is pending, the species of activeFilter is the
\* species selection of the page (currentServerFilters), none meaning
\* "all"; so after handleApplyFilters with species "all" that follows
\* "human", activeFilter has no species.
C31_SpeciesInSync ==
    Quiet => SpeciesOf(PropsOf(activeFilter)) = SpeciesOf(currentServerFilters)

\* the fields of a filter other than name
OtherFields(filter) == {f \in FieldsOf(filter) : f[1] # "name"}

\* C32: a search that fires changes the name of activeFilter only: every
\* other field of the filter active when it fires is in the new
\* activeFilter, also when the search was typed before a filter change and
\* fires after it.
C32_SearchKeepsOtherFields ==
    [][SearchFires => OtherFields(activeFilter') = OtherFields(activeFilter)]_vars

\* C33: when no fetch is in flight and the last load succeeded, from the
\* network or from the cache (a remount and a filter change served from the
\* cache included), totalPages is the page count of the service for
\* activeFilter, hasNextPage tells whether the filter has pages beyond
\* currentPage, and no page beyond that count has been requested.
C33_TotalPagesOfActiveFilter ==
    (inflight = <<>> /\ LastLoadSucceeded) =>
        /\ totalPages = ServerPages(activeFilter)
        /\ hasNextPage <=> currentPage < ServerPages(activeFilter)
        /\ ev.op = "loadNextPage" => ev.page <= ServerPages(ev.filter)

\* the ids the service returns for a filter, over all its pages
ServedIds(filter) ==
    UNION {Ids(ServerResults(filter, page)) : page \in 1..ServerPages(filter)}

\* C34: when no fetch is in flight, every entry of characters is an entity
\* the service returned for activeFilter; after a filter change whose
\* page-1 fetch failed the list holds nothing of another filter.
C34_ListBelongsToActiveFilter ==
    inflight = <<>> => Ids(characters) \subseteq ServedIds(activeFilter)

\* the pages left to load, and a list that holds the items of one load twice
Remaining == totalPages - currentPage
LoadedTwice(list) ==
    \E i, j \in 1..Len(list) : i < j /\ list[i] = list[j]

\* C37: every loadNextPage made after the previous load has completed and
\* that succeeds, from the network or from the cache, leaves fewer pages to
\* load and no page in the list twice, so that repeated calls reach
\* hasNextPage = false after finitely many calls with each page loaded once.
C37_LoadNextPageTerminates ==
    [][/\ (NextPageFromCache /\ inflight = <<>>) =>
            /\ Remaining' < Remaining
            /\ ~LoadedTwice(characters')
       /\ (/\ NextPageFromNetwork /\ hasNextPage
           /\ Len(inflight) = 1 /\ inflight[1].mount = mount) =>
            /\ Remaining' < Remaining
            /\ ~LoadedTwice(characters')]_vars

====
